---------------------------- MODULE Spec2Model ----------------------------
(***************************************************************************)
(* A model of RealtimeClient (Chatbot/lib/realtime.ts), the realtime       *)
(* bidirectional voice-streaming client of Lyra.                           *)
(*                                                                         *)
(* The client runs on the browser's single event loop.  Every action below *)
(* is one task of that loop: an event handler (or a call of a public       *)
(* method) together with every promise continuation that runs in the       *)
(* microtask checkpoints of that task.  The fields of the object keep      *)
(* their names.  The browser and the network (channels, timers, the        *)
(* playback AudioContext, buffer sources) are the environment.             *)
(*                                                                         *)
(* The handlers are written as operators on a record w ("the world"): the  *)
(* fields of the client and of the environment.  An action reads World,    *)
(* applies the handler and commits the result to the variables.            *)
(***************************************************************************)
EXTENDS Integers, Sequences, FiniteSets, TLC

VARIABLES
  \* fields of RealtimeClient
  ws,                     \* 0 (null) or the id of the channel held
  isConnected,
  reconnectAttempts,
  currentState,
  isSpeaking,
  audioQueue,             \* Seq of chunks; a chunk is the Seq of the deltas it holds,
                          \* a delta being [n: its arrival number, len: its samples]
  isPlayingAudio,
  audioSourceNode,        \* 0 (null) or the drain loop whose source node is held
  isManuallyDisconnected,
  playbackAudioContext,   \* "null", or the state of the context held
  mediaStream,            \* TRUE when a media stream is held
  audioContext,           \* TRUE when a capture context is held (it is then open)
  audioWorkletNode,       \* TRUE when the capture nodes (worklet, analyser) are held
  sample,                 \* a capture sample, in units of 1/SampleUnit
  pcm16,                  \* <<>>, or <<its 16-bit encoding by sendAudio>>
  float32,                \* <<>>, or <<that decoded by handleAudioDelta, in units of 1/32768>>
  nextNoteTime,           \* the schedule cursor (undefined reads as 0), in sample periods
  \* environment: network, timers, audio subsystem
  chan,                   \* the WebSocket objects created so far
  timers,                 \* pending backoff timers of attemptReconnect, oldest first
  micPending,             \* attemptReconnect activations awaiting startAudio()
  micUser,                \* 0, or the getUserMedia() a startAudio() of the user awaits:
                          \* 1 (speech constraints) or 2 (the retry)
  loops,                  \* activations of processAudioQueue
  resumeWaiters,          \* loops awaiting resume() of the context held, oldest first
  deadWaiters,            \* per closed context: loops still awaiting its resume()
  resumePending,          \* resume() was called on the suspended context held
  currentTime,            \* the clock of the playback context held, in sample periods
  buffer,                 \* AudioProcessor.buffer (<<>> while no processor exists)
  bufferIndex,            \* AudioProcessor.bufferIndex
  scriptBuffer,           \* frames the ScriptProcessorNode holds for its next event
  micFed,                 \* samples the microphone has delivered; sample i is the number i
  workletBlocks,          \* the blocks the worklet path handed to sendAudio in the last
                          \* render, in order
  scriptBlocks,           \* ... the script processor path
  nHanded,                \* blocks the worklet path handed to sendAudio before those
  nBlocks,                \* capture blocks produced so far
  nDeltas,                \* audio deltas delivered so far
  staleInFlight,          \* frames of a cancelled response may still arrive
  \* observation
  turn,                   \* what the last task did
  lastStarted,            \* arrival number of the last delta handed to source.start()
  fatalReported,          \* onError('Failed to reconnect') was invoked since the last open
  userDisconnected,       \* "no", or how disconnect() was called with no connect() by the
                          \* user since: "midReconnect" (a reconnect attempt was waiting
                          \* out its delay or opening its channel) or "yes"
  quietSinceInterrupt     \* interrupt() was called and no audio delta has arrived since

vars == <<ws, isConnected, reconnectAttempts, currentState, isSpeaking, audioQueue,
          isPlayingAudio, audioSourceNode, isManuallyDisconnected,
          playbackAudioContext, mediaStream, audioContext, audioWorkletNode,
          nextNoteTime, currentTime, sample, pcm16, float32, nBlocks,
          buffer, bufferIndex, scriptBuffer, micFed, workletBlocks, scriptBlocks,
          nHanded,
          chan, timers, micPending, micUser, loops,
          resumeWaiters, deadWaiters, resumePending, nDeltas, staleInFlight,
          turn, lastStarted, fatalReported, userDisconnected, quietSinceInterrupt>>

---------------------------------------------------------------------------
\* Bounds of the model.
ConnChans == 3      \* WebSocket objects created in a run of SpecConn
PlayChans == 1      \* ... of SpecPlay
RetryChans == 6     \* ... of SpecRetry: the user's and one per attempt
MaxDeltas == 3      \* audio deltas delivered in one run
bufferSize == 4096
MaxLoops == 2       \* activations of processAudioQueue alive at once
MaxBlocks == 2      \* capture blocks produced in one run
SubSteps == 2       \* capture samples are multiples of 1/(32768 * SubSteps)
MaxClock == 2       \* the clock of a playback context runs that many times 9600 samples

\* Constants of the program.
maxReconnectAttempts == 5
reconnectDelay == 1000
MIN_CHUNK_SIZE == 9600
NORMAL_CLOSURE == 1000

States == {"connecting", "connected", "listening", "speaking", "processing", "error"}
DeltaLens == {4800, 9600}      \* a delta below and one at the merge threshold
ContextStates == {"suspended", "running"}

\* Ids of the WebSocket objects: as many as the largest of the three bounds.
Max(a, b) == IF a >= b THEN a ELSE b
Chans == 1..Max(ConnChans, Max(PlayChans, RetryChans))
LoopIds == 1..MaxLoops

NoChan == [rs |-> "NONE", promise |-> "none", awaiter |-> "none"]
NoLoop == [pc |-> "idle", chunk |-> <<>>]

nChan == Cardinality({c \in Chans : chan[c].rs # "NONE"})

RECURSIVE Pow2(_)
Pow2(n) == IF n <= 0 THEN 1 ELSE 2 * Pow2(n - 1)

RECURSIVE Flatten(_)
Flatten(q) == IF q = <<>> THEN <<>> ELSE Head(q) \o Flatten(Tail(q))

\* chunk.length: the samples of a chunk
RECURSIVE Length(_)
Length(chunk) == IF chunk = <<>> THEN 0 ELSE Head(chunk).len + Length(Tail(chunk))

\* No more backoff timers are ever pending than attempts the counter allows
\* between two opens.
MaxTimers == 2 * maxReconnectAttempts

Remove(s, i) == [j \in 1..(Len(s) - 1) |-> IF j < i THEN s[j] ELSE s[j + 1]]

---------------------------------------------------------------------------
\* The world: the state as a record, so that handlers compose sequentially.
World ==
  [ws |-> ws, isConnected |-> isConnected, reconnectAttempts |-> reconnectAttempts,
   currentState |-> currentState, isSpeaking |-> isSpeaking, audioQueue |-> audioQueue,
   isPlayingAudio |-> isPlayingAudio, audioSourceNode |-> audioSourceNode,
   isManuallyDisconnected |-> isManuallyDisconnected,
   playbackAudioContext |-> playbackAudioContext, mediaStream |-> mediaStream,
   audioContext |-> audioContext, audioWorkletNode |-> audioWorkletNode,
   nextNoteTime |-> nextNoteTime, currentTime |-> currentTime,
   sample |-> sample, pcm16 |-> pcm16, float32 |-> float32, nBlocks |-> nBlocks,
   buffer |-> buffer, bufferIndex |-> bufferIndex, scriptBuffer |-> scriptBuffer,
   micFed |-> micFed, workletBlocks |-> workletBlocks, scriptBlocks |-> scriptBlocks,
   nHanded |-> nHanded,
   chan |-> chan, timers |-> timers, micPending |-> micPending, micUser |-> micUser,
   loops |-> loops,
   resumeWaiters |-> resumeWaiters, deadWaiters |-> deadWaiters,
   resumePending |-> resumePending, nDeltas |-> nDeltas,
   staleInFlight |-> staleInFlight, turn |-> turn, lastStarted |-> lastStarted,
   fatalReported |-> fatalReported, userDisconnected |-> userDisconnected,
   quietSinceInterrupt |-> quietSinceInterrupt,
   overflow |-> FALSE]     \* set when a handler needs more than the bounds give

Commit(w) ==
  /\ ws' = w.ws
  /\ isConnected' = w.isConnected
  /\ reconnectAttempts' = w.reconnectAttempts
  /\ currentState' = w.currentState
  /\ isSpeaking' = w.isSpeaking
  /\ audioQueue' = w.audioQueue
  /\ isPlayingAudio' = w.isPlayingAudio
  /\ audioSourceNode' = w.audioSourceNode
  /\ isManuallyDisconnected' = w.isManuallyDisconnected
  /\ playbackAudioContext' = w.playbackAudioContext
  /\ mediaStream' = w.mediaStream
  /\ audioContext' = w.audioContext
  /\ audioWorkletNode' = w.audioWorkletNode
  /\ nextNoteTime' = w.nextNoteTime
  /\ sample' = w.sample
  /\ nBlocks' = w.nBlocks
  /\ buffer' = w.buffer
  /\ bufferIndex' = w.bufferIndex
  /\ scriptBuffer' = w.scriptBuffer
  /\ micFed' = w.micFed
  /\ workletBlocks' = w.workletBlocks
  /\ scriptBlocks' = w.scriptBlocks
  /\ nHanded' = w.nHanded
  /\ pcm16' = w.pcm16
  /\ float32' = w.float32
  /\ currentTime' = w.currentTime
  /\ micUser' = w.micUser
  /\ chan' = w.chan
  /\ timers' = w.timers
  /\ micPending' = w.micPending
  /\ loops' = w.loops
  /\ resumeWaiters' = w.resumeWaiters
  /\ deadWaiters' = w.deadWaiters
  /\ resumePending' = w.resumePending
  /\ nDeltas' = w.nDeltas
  /\ staleInFlight' = w.staleInFlight
  /\ turn' = w.turn
  /\ lastStarted' = w.lastStarted
  /\ fatalReported' = w.fatalReported
  /\ userDisconnected' = w.userDisconnected
  /\ quietSinceInterrupt' = (w.turn.interrupted \/
       (w.quietSinceInterrupt /\ w.turn.op # "response.audio.delta"))

\* The record of a task that starts now: nothing called back, nothing sent yet.
NewTurn(op, arg) ==
  [op |-> op, arg |-> arg, attempts |-> reconnectAttempts, cbs |-> <<>>, sent |-> <<>>, started |-> <<>>,
   interrupted |-> FALSE, dropped |-> 0, newChan |-> FALSE, newTimers |-> 0,
   registered |-> FALSE,   \* this.callbacks was assigned
   released |-> FALSE,     \* a media stream that was held was stopped
   replaced |-> FALSE,     \* a media stream that was held, and live, was overwritten
   threw |-> "",           \* the error a call of connect() threw before its await
   startTimes |-> <<>>]    \* the times given to source.start(), one per chunk started

Begin(op, arg) == [World EXCEPT !.turn = NewTurn(op, arg)]

\* this.callbacks.<name>?.(<what>)
callback(w, name, what) == [w EXCEPT !.turn.cbs = Append(@, <<name, what>>)]

\* this.ws.send(JSON.stringify({type})) on channel c
send(w, c, type) == [w EXCEPT !.turn.sent = Append(@, <<c, type>>)]

\* The capture processors.  An AudioProcessor is the record of its fields and
\* of the messages it has posted: [buffer, bufferIndex, posted].  The model
\* numbers the cells of buffer from 1: its cell k is this.buffer[k - 1].

\* (a processor that takes its buffer for full one sample early)
room_early(p) == bufferSize - p.bufferIndex - 1

\* The number of iterations of the loop of process() until
\* this.bufferIndex >= this.bufferSize holds after the store.
room(p) == bufferSize - p.bufferIndex

\* The buffer after the stores this.buffer[this.bufferIndex++] = x for the
\* first n samples of inputChannel.
stored(p, inputChannel, n) ==
  [k \in 1..bufferSize |->
     IF k \in (p.bufferIndex + 1)..(p.bufferIndex + n)
       THEN inputChannel[k - p.bufferIndex] ELSE p.buffer[k]]

\* AudioProcessor.process with inputs[0][0] = inputChannel.  The loop is
\* taken a run of iterations at a time: either the input ends before the
\* buffer is full, or the buffer fills, a copy of it is posted, bufferIndex
\* is reset and the loop goes on with the rest of the input.
RECURSIVE process(_, _)
process(p, inputChannel) ==
  IF Len(inputChannel) < room(p)
    THEN [buffer |-> stored(p, inputChannel, Len(inputChannel)),
          bufferIndex |-> p.bufferIndex + Len(inputChannel),
          posted |-> p.posted]
    ELSE LET audioData == stored(p, inputChannel, room(p))
         IN process([buffer |-> audioData, bufferIndex |-> 0,
                     posted |-> Append(p.posted, audioData)],
                    SubSeq(inputChannel, room(p) + 1, Len(inputChannel)))

\* The ScriptProcessorNode created with createScriptProcessor(4096, 1, 1): the
\* browser collects the frames of its input and fires audioprocess with each
\* 4096 of them; onaudioprocess hands sendAudio a copy.  frames: those held
\* and those arriving; handed: the blocks handed over so far.
RECURSIVE onaudioprocess(_, _)
onaudioprocess(frames, handed) ==
  IF Len(frames) < 4096 THEN [held |-> frames, handed |-> handed]
  ELSE onaudioprocess(SubSeq(frames, 4097, Len(frames)),
                      Append(handed, SubSeq(frames, 1, 4096)))

\* (a sendAudio that sends whatever the state of the channel)
sendAudio_unguarded(w) ==
  IF w.ws # 0 THEN send(w, w.ws, "input_audio_buffer.append") ELSE w

\* sendAudio: one input_audio_buffer.append frame on the channel held, if it
\* is open; otherwise the block is dropped.
sendAudio(w) ==
  IF w.ws # 0 /\ w.chan[w.ws].rs = "OPEN"
    THEN send(w, w.ws, "input_audio_buffer.append")
    ELSE w

---------------------------------------------------------------------------
\* The PCM16 codec of sendAudio and handleAudioDelta.  A Float32 sample is
\* a dyadic rational; here it is an integer number of units of 1/SampleUnit.
SampleUnit == 32768 * SubSteps

Min(a, b) == IF a <= b THEN a ELSE b

\* The conversion of a number n/d to an integer on its store into an
\* Int16Array: truncation toward zero, then wrap-around modulo 2^16.
toInt16(n, d) ==
  LET t == IF n >= 0 THEN n \div d ELSE -((-n) \div d)
  IN ((t + 32768) % 65536) - 32768

\* sendAudio: Math.max(-1, Math.min(1, x)), then
\* int16Data[i] = sample < 0 ? sample * 0x8000 : sample * 0x7FFF
\* (sample * 0x8000 is x * 32768 / SampleUnit, that is x / SubSteps)
floatTo16BitPCM(x) ==
  LET s == Max(-SampleUnit, Min(SampleUnit, x))
  IN IF s < 0 THEN toInt16(s, SubSteps) ELSE toInt16(s * 32767, SampleUnit)

\* handleAudioDelta: float32Data[i] = int16Data[i] / 32768.0, as a number of
\* units of 1/32768
pcm16ToFloat(k) == k

---------------------------------------------------------------------------
\* (a setState that notifies whether or not the state changes)
setState_always(w, state) ==
  callback([w EXCEPT !.currentState = state], "onStateChange", state)

\* setState
setState(w, state) ==
  IF w.currentState # state
    THEN callback([w EXCEPT !.currentState = state], "onStateChange", state)
    ELSE w

---------------------------------------------------------------------------
\* Playback: queueAudio, processAudioQueue, playAudioChunk

\* this.audioSourceNode.stop(); this.audioSourceNode = null.  The source's
\* ended event is delivered by a later task (SourceEnded).
stopSource(w) ==
  IF w.audioSourceNode # 0
    THEN [w EXCEPT !.loops[w.audioSourceNode].pc = "stopped", !.audioSourceNode = 0]
    ELSE w

\* new AudioContext({sampleRate: 24000}); cs is the state the browser gives it.
\* Its clock starts at 0.
createContext(w, cs) ==
  [w EXCEPT !.playbackAudioContext = cs, !.resumePending = FALSE,
            !.resumeWaiters = <<>>, !.currentTime = 0]

\* audioBuffer.duration, in sample periods of the 24 kHz buffer
duration(chunk) == Length(chunk)

\* (a cursor that follows the clock instead of the schedule)
advanceCursor_clock(now, cursor, chunk) ==
  [startTime |-> now, nextNoteTime |-> now]

\* The scheduling of a chunk at clock time now with the cursor given: the
\* start time handed to source.start() and the cursor afterwards.
advanceCursor(now, cursor, chunk) ==
  LET startTime == Max(now, cursor)
      next == startTime + duration(chunk)
  IN [startTime |-> startTime,
      nextNoteTime |-> IF next < now THEN now ELSE next]

\* playAudioChunk from the creation of the buffer source to source.start():
\* loop l then awaits the source's ended event.
startSource(w, l, chunk) ==
  LET s == advanceCursor(w.currentTime, w.nextNoteTime, chunk)
  IN
  [w EXCEPT !.audioSourceNode = l,
            !.lastStarted = chunk[Len(chunk)].n,
            !.turn.started = Append(@, chunk),
            !.turn.startTimes = Append(@, s.startTime),
            !.nextNoteTime = s.nextNoteTime,
            !.loops[l] = [pc |-> "playing", chunk |-> chunk]]

\* playAudioChunk up to its first suspension: the await of resume() when the
\* context is suspended, else the await of the ended event.  (With the
\* context running, or just resumed, the second resume() at "Verify context
\* is running" is not reached.)
playAudioChunk(w, l, chunk, cs) ==
  LET w1 == IF w.playbackAudioContext = "null" THEN createContext(w, cs) ELSE w
  IN IF w1.playbackAudioContext = "suspended"
       THEN [w1 EXCEPT !.resumePending = TRUE,
                       !.resumeWaiters = Append(@, l),
                       !.loops[l] = [pc |-> "resumeA", chunk |-> chunk]]
       ELSE startSource(w1, l, chunk)

\* (a drain loop that returns without clearing isPlayingAudio)
drainLoop_keepflag(w, l, cs) ==
  IF Len(w.audioQueue) > 0 /\ w.isPlayingAudio
    THEN LET s == [head |-> Head(w.audioQueue), rest |-> Tail(w.audioQueue)]
         IN playAudioChunk([w EXCEPT !.audioQueue = s.rest], l, s.head, cs)
    ELSE [w EXCEPT !.loops[l] = NoLoop]

\* The next element the drain loop takes: audioQueue.shift()
shiftQueue(q) == [head |-> Head(q), rest |-> Tail(q)]

\* One evaluation of the while loop of processAudioQueue by loop l, up to the
\* loop's next suspension or its return.
drainLoop(w, l, cs) ==
  IF Len(w.audioQueue) > 0 /\ w.isPlayingAudio
    THEN LET s == shiftQueue(w.audioQueue)
         IN playAudioChunk([w EXCEPT !.audioQueue = s.rest], l, s.head, cs)
    ELSE [w EXCEPT !.isPlayingAudio = FALSE, !.loops[l] = NoLoop]

FreeLoops(w) == {l \in LoopIds : w.loops[l].pc = "idle"}

\* A call of processAudioQueue, up to its first suspension.
processAudioQueue(w, cs) ==
  IF w.isPlayingAudio \/ Len(w.audioQueue) = 0 THEN w
  ELSE IF FreeLoops(w) = {} THEN [w EXCEPT !.overflow = TRUE]
  ELSE LET l == CHOOSE x \in FreeLoops(w) : \A y \in FreeLoops(w) : x <= y
           w1 == [w EXCEPT !.isPlayingAudio = TRUE]
       IN IF w1.playbackAudioContext = "suspended"
            THEN [w1 EXCEPT !.resumePending = TRUE,
                            !.resumeWaiters = Append(@, l),
                            !.loops[l] = [pc |-> "resume0", chunk |-> <<>>]]
            ELSE drainLoop(w1, l, cs)

\* (the merge with its two copies swapped)
combine_swapped(lastChunk, audioData) == audioData \o lastChunk

\* The merge of queueAudio: the combined chunk is lastChunk followed by the new data.
combine(lastChunk, audioData) == lastChunk \o audioData

\* The queue after queueAudio's enqueue of audioData.
enqueue(q, audioData) ==
  IF Len(q) > 0 /\ Length(q[Len(q)]) < MIN_CHUNK_SIZE
    THEN [q EXCEPT ![Len(q)] = combine(q[Len(q)], audioData)]
    ELSE Append(q, audioData)

queueAudio(w, audioData, cs) ==
  LET w1 == IF w.playbackAudioContext = "null" THEN createContext(w, cs) ELSE w
      w2 == IF w1.playbackAudioContext = "suspended"
              THEN [w1 EXCEPT !.resumePending = TRUE] ELSE w1
      w3 == [w2 EXCEPT !.audioQueue = enqueue(@, audioData)]
  IN IF ~w3.isPlayingAudio THEN processAudioQueue(w3, cs) ELSE w3

---------------------------------------------------------------------------
\* interrupt

\* (an interrupt that tells the backend nothing)
notifyCancel_silent(w) == w

\* "Send cancel message to backend": one response.cancel when the channel
\* held is open.
notifyCancel(w) ==
  IF w.ws # 0 /\ w.chan[w.ws].rs = "OPEN"
    THEN send(w, w.ws, "response.cancel")
    ELSE w

\* The state interrupt() leaves for the connection.
interruptState == "listening"

interrupt(w) ==
  LET w1 == stopSource(w)
      w2 == [w1 EXCEPT !.turn.interrupted = TRUE,
                       !.turn.dropped = @ + Len(w1.audioQueue),
                       !.audioQueue = <<>>,
                       !.isPlayingAudio = FALSE,
                       !.isSpeaking = FALSE]
  IN setState(notifyCancel(w2), interruptState)

---------------------------------------------------------------------------
\* Connection: connect, its channel handlers, attemptReconnect, disconnect

\* (a delay that grows linearly)
backoffDelay_linear(k) == reconnectDelay * k

\* The delay of the attempt that raised the counter to k.
backoffDelay(k) == reconnectDelay * Pow2(k - 1)

\* (an attempt that is not counted)
attemptReconnect_nocount(w) ==
  LET k == w.reconnectAttempts + 1
      w1 == [w EXCEPT !.timers = Append(@, [k |-> k, delay |-> backoffDelay(k)]),
                      !.turn.newTimers = @ + 1]
  IN setState(w1, "connecting")

attemptReconnect(w) ==
  IF w.reconnectAttempts >= maxReconnectAttempts
    THEN callback(w, "onError", "Max reconnection attempts reached")
    ELSE LET k == w.reconnectAttempts + 1
             w1 == [w EXCEPT !.reconnectAttempts = k,
                             !.timers = Append(@, [k |-> k, delay |-> backoffDelay(k)]),
                             !.turn.newTimers = @ + 1]
         IN setState(w1, "connecting")

\* The catch block of attemptReconnect.
reconnectFailed(w) ==
  IF w.reconnectAttempts < maxReconnectAttempts
    THEN attemptReconnect(w)
    ELSE [callback(w, "onError", "Failed to reconnect") EXCEPT !.fatalReported = TRUE]

\* reject(...) of the promise connect() awaits on channel c: the first
\* settlement counts; connect() then throws to its caller.
rejectConnect(w, c) ==
  IF w.chan[c].promise # "pending" THEN w
  ELSE LET w1 == [w EXCEPT !.chan[c].promise = "settled"]
       IN IF w.chan[c].awaiter = "reconnect" THEN reconnectFailed(w1) ELSE w1

\* resolve() of that promise.  An attemptReconnect that awaited it goes on
\* to startAudio(), which first awaits the microphone.
resolveConnect(w, c) ==
  IF w.chan[c].promise # "pending" THEN w
  ELSE LET w1 == [w EXCEPT !.chan[c].promise = "settled"]
       IN IF w.chan[c].awaiter = "reconnect"
            THEN [w1 EXCEPT !.micPending = @ + 1] ELSE w1

\* (a connect() that never finds the session connected)
alreadyConnected_never(w) == FALSE

\* The test connect() starts with.
alreadyConnected(w) == w.isConnected

\* connect(callbacks) up to its await, called by awaiter.
connect(w, awaiter) ==
  IF alreadyConnected(w)
    THEN \* throw new Error('Already connected')
         LET w1 == [w EXCEPT !.turn.threw = "Already connected"]
         IN IF awaiter = "reconnect" THEN reconnectFailed(w1) ELSE w1
  ELSE IF \A c \in Chans : w.chan[c].rs # "NONE" THEN [w EXCEPT !.overflow = TRUE]
  ELSE LET c == CHOOSE x \in Chans :
                  /\ w.chan[x].rs = "NONE"
                  /\ \A y \in Chans : w.chan[y].rs = "NONE" => x <= y
       IN [w EXCEPT !.ws = c,
                    !.chan[c] = [rs |-> "CONNECTING", promise |-> "pending",
                                 awaiter |-> awaiter],
                    !.turn.registered = TRUE,
                    !.turn.newChan = TRUE]

\* ws.onopen of channel c
onopen(w, c) ==
  LET w1 == [w EXCEPT !.isConnected = TRUE,
                      !.reconnectAttempts = 0,
                      !.isManuallyDisconnected = FALSE,
                      !.fatalReported = FALSE]
      w2 == IF w1.ws # 0 /\ w1.chan[w1.ws].rs = "OPEN"
              THEN send(w1, w1.ws, "start") ELSE w1
  IN resolveConnect(setState(w2, "connected"), c)

\* ws.onerror of channel c
onerror(w, c) ==
  rejectConnect(callback(setState(w, "error"), "onError", "WebSocket error"), c)

\* (the test without the close code)
shouldReconnect_anyCode(w, code) ==
  /\ ~w.isManuallyDisconnected
  /\ w.reconnectAttempts < maxReconnectAttempts

\* The test of ws.onclose that starts a reconnection.
shouldReconnect(w, code) ==
  /\ ~w.isManuallyDisconnected
  /\ code # NORMAL_CLOSURE
  /\ w.reconnectAttempts < maxReconnectAttempts

\* ws.onclose of a channel, with the close event's code
onclose(w, code) ==
  LET w1 == setState([w EXCEPT !.isConnected = FALSE], "error")
  IN IF shouldReconnect(w1, code)
       THEN attemptReconnect(w1)
       ELSE callback(w1, "onClose", "")

\* startAudio() once the microphone is granted and the capture graph is built:
\* the fields are assigned the new stream, context and nodes.  What they held
\* is neither stopped nor closed: a stream that was live stays live, wired to
\* its processor, with no reference left to it.
startAudioDone(w) ==
  [w EXCEPT !.turn.replaced = w.mediaStream,
            !.mediaStream = TRUE, !.audioContext = TRUE, !.audioWorkletNode = TRUE]

\* (a startAudio that asks again after every rejection)
startAudio_insist(w, ok) ==
  IF ok THEN startAudioDone([w EXCEPT !.micUser = 0])
  ELSE [w EXCEPT !.micUser = 2]

\* startAudio from the settling of a getUserMedia() it awaits, micUser
\* telling which: 1 the request with the speech constraints, 2 the one with
\* {audio: true}.  The first rejection is caught and the second request
\* made; the second rejection is logged and rethrown.
startAudio(w, ok) ==
  IF ok THEN startAudioDone([w EXCEPT !.micUser = 0])
  ELSE IF w.micUser = 1 THEN [w EXCEPT !.micUser = 2]
  ELSE [w EXCEPT !.micUser = 0, !.turn.threw = "getUserMedia"]

\* (a stopAudio that toggles capture)
stopAudio_toggle(w) ==
  LET w1 == [w EXCEPT !.audioQueue = <<>>, !.isPlayingAudio = FALSE]
  IN [stopSource(w1) EXCEPT !.turn.released = w.mediaStream,
                            !.mediaStream = ~w.mediaStream,
                            !.audioWorkletNode = FALSE]

\* stopAudio: the capture context is left as it is.
stopAudio(w) ==
  LET w1 == [w EXCEPT !.audioQueue = <<>>, !.isPlayingAudio = FALSE]
  IN [stopSource(w1) EXCEPT !.turn.released = w.mediaStream,
                            !.mediaStream = FALSE,
                            !.audioWorkletNode = FALSE]

\* (a disconnect that leaves the playback context open)
closeContext_keep(w) == w

\* this.playbackAudioContext.close(); this.playbackAudioContext = null
closeContext(w) ==
  IF w.playbackAudioContext # "null"
    THEN [w EXCEPT !.playbackAudioContext = "null",
                   !.currentTime = 0,
                   !.resumePending = FALSE,
                   !.resumeWaiters = <<>>,
                   !.deadWaiters = IF w.resumeWaiters = <<>> THEN @
                                   ELSE Append(@, w.resumeWaiters)]
    ELSE w

\* this.audioContext.close(); this.audioContext = null
closeCapture(w) == [w EXCEPT !.audioContext = FALSE]

\* this.ws.close(1000, 'User disconnected'); this.ws = null
closeChannel(w) ==
  IF w.ws # 0
    THEN LET rs == w.chan[w.ws].rs
         IN [w EXCEPT !.chan[w.ws].rs = CASE rs = "OPEN" -> "CLOSING"
                                          [] rs = "CONNECTING" -> "ABORTING"
                                          [] OTHER -> rs,
                      !.ws = 0]
    ELSE w

disconnect(w) ==
  LET w1 == [w EXCEPT !.isManuallyDisconnected = TRUE,
                      !.reconnectAttempts = maxReconnectAttempts]
      w2 == stopAudio(w1)
      w3 == stopSource([w2 EXCEPT !.audioQueue = <<>>, !.isPlayingAudio = FALSE])
      w4 == closeChannel(closeCapture(closeContext(w3)))
  IN [w4 EXCEPT !.isConnected = FALSE]

---------------------------------------------------------------------------
\* Inbound frames: handleRealtimeMessage

\* A delta payload: its base64 text ("ok", "invalid" or "empty", the empty
\* string) and the number of bytes it encodes.
Payload(b64, bytes) == [b64 |-> b64, bytes |-> bytes]

\* (a decoder that truncates instead of throwing)
decode_lenient(payload) == [threw |-> "", samples |-> payload.bytes \div 2]

\* atob, then new Int16Array(buffer): the number of 16-bit samples, or the
\* exception thrown.
decode(payload) ==
  IF payload.b64 = "invalid" THEN [threw |-> "InvalidCharacterError", samples |-> 0]
  ELSE IF payload.bytes % 2 # 0 THEN [threw |-> "RangeError", samples |-> 0]
  ELSE [threw |-> "", samples |-> payload.bytes \div 2]

\* handleAudioDelta: decode and queue delta number n; an exception is caught
\* and logged.
handleAudioDelta(w, payload, n, cs) ==
  LET d == decode(payload)
  IN IF d.threw # "" THEN w
     ELSE queueAudio(w, <<[n |-> n, len |-> d.samples]>>, cs)

\* case 'response.audio.delta' with the payload message.delta, delta number n
audioDelta(w, payload, n, cs) ==
  IF payload.b64 = "empty" THEN w
  ELSE LET w1 == IF ~w.isSpeaking
                   THEN LET v == setState([w EXCEPT !.isSpeaking = TRUE], "speaking")
                        IN IF v.playbackAudioContext = "suspended"
                             THEN [v EXCEPT !.resumePending = TRUE]
                           ELSE IF v.playbackAudioContext = "null"
                             THEN createContext(v, cs)
                           ELSE v
                   ELSE w
       IN handleAudioDelta(w1, payload, n, cs)

\* handleMessage with data that is not a string (a binary frame)
binaryMessage(w) == callback(w, "onAudio", "data")

\* case 'response.done'
responseDone(w) ==
  LET w1 == [w EXCEPT !.isSpeaking = FALSE]
  IN IF w1.currentState # "processing" THEN setState(w1, "listening") ELSE w1

\* case 'conversation.item.input_audio_transcription.completed', for a
\* non-empty transcript; substantial: transcript.trim().length > 2
userTranscript(w, substantial) ==
  LET w1 == IF w.isSpeaking /\ substantial THEN interrupt(w) ELSE w
  IN callback(setState(w1, "processing"), "onTranscript", "user")

\* (a dispatcher that reports the types it does not know)
handleRealtimeMessage_strict(w, type) ==
  CASE type = "response.done" -> responseDone(w)
    [] type = "error" -> callback(w, "onError", "server")
    [] type \in {"session.created", "session.updated"} -> w
    [] OTHER -> callback(w, "onError", "unknown type")

\* handleRealtimeMessage for the frames without payload: the switch on
\* message.type, its default being a debug log.
handleRealtimeMessage(w, type) ==
  CASE type = "response.done" -> responseDone(w)
    [] type = "error" -> callback(w, "onError", "server")
    [] type \in {"session.created", "session.updated"} -> w
    [] OTHER -> w

\* handleMessage with a text frame: JSON.parse, which throws on text that is
\* not JSON (caught and logged), then the dispatch.
handleMessage(w, data) ==
  IF data.json THEN handleRealtimeMessage(w, data.type) ELSE w

---------------------------------------------------------------------------
\* Continuations of the drain loops

\* Loop l after the resume() it awaited has resolved: the context held is
\* the one it waited for, and is running.
afterResume(w, l, cs) ==
  IF w.loops[l].pc = "resume0"
    THEN drainLoop(w, l, cs)
    ELSE startSource(w, l, w.loops[l].chunk)

RECURSIVE resumeAll(_, _, _)
resumeAll(w, waiters, cs) ==
  IF waiters = <<>> THEN w
  ELSE resumeAll(afterResume(w, Head(waiters), cs), Tail(waiters), cs)

\* Loop l after the resume() it awaited was rejected (its context was
\* closed): processAudioQueue catches before the loop; playAudioChunk
\* rejects and processAudioQueue goes on with the next chunk.
RECURSIVE rejectAll(_, _, _)
rejectAll(w, waiters, cs) ==
  IF waiters = <<>> THEN w
  ELSE rejectAll(drainLoop(w, Head(waiters), cs), Tail(waiters), cs)

\* source.onended of the source of loop l, then the loop goes on
onended(w, l, cs) ==
  LET w1 == IF w.audioSourceNode = l THEN [w EXCEPT !.audioSourceNode = 0] ELSE w
  IN drainLoop(w1, l, cs)

\* (a drain loop that dies of the rejection: no catch around the await)
onSourceError_uncaught(w, l, cs) ==
  LET w1 == IF w.audioSourceNode = l THEN [w EXCEPT !.audioSourceNode = 0] ELSE w
  IN [w1 EXCEPT !.loops[l] = NoLoop]

\* source.onerror of the source of loop l: playAudioChunk rejects, the catch
\* of processAudioQueue logs, and the loop goes on
onSourceError(w, l, cs) ==
  LET w1 == IF w.audioSourceNode = l THEN [w EXCEPT !.audioSourceNode = 0] ELSE w
  IN drainLoop(w1, l, cs)

---------------------------------------------------------------------------
\* The client after construction.
InitClient ==
  /\ ws = 0
  /\ isConnected = FALSE
  /\ reconnectAttempts = 0
  /\ currentState = "connecting"
  /\ isSpeaking = FALSE
  /\ audioQueue = <<>>
  /\ isPlayingAudio = FALSE
  /\ audioSourceNode = 0
  /\ isManuallyDisconnected = FALSE
  /\ playbackAudioContext = "null"
  /\ mediaStream = FALSE
  /\ audioContext = FALSE
  /\ audioWorkletNode = FALSE
  /\ nextNoteTime = 0
  /\ currentTime = 0
  /\ micUser = 0
  /\ chan = [c \in Chans |-> NoChan]
  /\ timers = <<>>
  /\ micPending = 0
  /\ loops = [l \in LoopIds |-> NoLoop]
  /\ resumeWaiters = <<>>
  /\ deadWaiters = <<>>
  /\ resumePending = FALSE
  /\ nDeltas = 0
  /\ staleInFlight = FALSE
  /\ turn = NewTurn("new", 0)
  /\ lastStarted = 0
  /\ fatalReported = FALSE
  /\ userDisconnected = "no"
  /\ quietSinceInterrupt = FALSE
  /\ pcm16 = <<>>
  /\ float32 = <<>>
  /\ nBlocks = 0
  /\ scriptBuffer = <<>>
  /\ micFed = 0
  /\ workletBlocks = <<>>
  /\ scriptBlocks = <<>>
  /\ nHanded = 0
  /\ bufferIndex = 0

Init ==
  /\ InitClient
  /\ sample = 0
  /\ buffer = <<>>

\* The client with its capture graphs built: the AudioProcessor constructed
\* (a buffer of bufferSize zeros) and the script processor created.
InitWorklet ==
  /\ InitClient
  /\ sample = 0
  /\ buffer = [i \in 1..bufferSize |-> 0]

\* The client, and a sample the microphone may deliver: any multiple of
\* 1/SampleUnit from -1 to 1, and one beyond each end.
InitCodec ==
  /\ InitClient
  /\ buffer = <<>>
  /\ sample \in (-SampleUnit - 1)..(SampleUnit + 1)

---------------------------------------------------------------------------
\* The tasks.  CloseCodes: a normal closure, a clean closure with another
\* code (going away), and the abnormal closure of a failed connection.
CloseCodes == {1000, 1001}
AbnormalClosure == {1006}

\* The user calls connect(callbacks) and awaits it.
\* (limit: the run creates no more WebSocket objects than that.)
UserConnect(limit) ==
  /\ nChan < limit
  /\ LET w == connect(Begin("connect", 0), "user")
     IN Commit([w EXCEPT !.userDisconnected = "no"])

\* An activation of attemptReconnect is waiting out its delay, or awaits the
\* connect() it called.
ReconnectInFlight ==
  \/ timers # <<>>
  \/ \E c \in Chans : chan[c].awaiter = "reconnect" /\ chan[c].promise = "pending"

\* The user calls disconnect().
UserDisconnect ==
  LET w == disconnect(Begin("disconnect", 0))
  IN /\ ~w.overflow
     /\ Commit([w EXCEPT !.userDisconnected =
                            IF ReconnectInFlight THEN "midReconnect" ELSE "yes",
                        !.staleInFlight = FALSE])

\* A response.cancel that reaches the server while the client was receiving
\* a response cancels that response; its frames already on the wire still
\* arrive, up to its response.done.
cancelled(w0, w) ==
  [w EXCEPT !.staleInFlight = @ \/ (w0.isSpeaking /\ w.turn.sent # <<>>)]

\* The user calls interrupt().
UserInterrupt ==
  LET w0 == Begin("interrupt", 0)
      w == cancelled(w0, interrupt(w0))
  IN /\ ~w.overflow
     /\ Commit(w)

\* The user calls stopAudio().
UserStopAudio ==
  LET again == IF turn.op = "stopAudio" THEN 1 ELSE 0   \* called twice in a row
      w == stopAudio(Begin("stopAudio", again))
  IN /\ ~w.overflow
     /\ Commit(w)

\* The open event of channel c.
Open(c) ==
  /\ chan[c].rs = "CONNECTING"
  /\ Commit([onopen([Begin("onopen", c) EXCEPT !.chan[c].rs = "OPEN"], c) EXCEPT
               !.fatalReported = FALSE])

\* Channel c fails (while opening, while open, or closed by the client
\* before it opened): the browser fires error, then close with code 1006,
\* in one task, with a microtask checkpoint after each handler.
Fail(c) ==
  /\ chan[c].rs \in {"CONNECTING", "OPEN", "ABORTING"}
  /\ \E code \in AbnormalClosure :
       LET w0 == [Begin("onerror+onclose", code) EXCEPT
                    !.chan[c].rs = "CLOSED", !.staleInFlight = FALSE]
           w1 == onerror(w0, c)
       IN Commit(onclose([w1 EXCEPT !.turn.attempts = w1.reconnectAttempts], code))

\* Channel c closes cleanly: closed by the server with the given code, or
\* the closing handshake of ws.close(1000) completes.
Close(c, code) ==
  /\ \/ chan[c].rs = "OPEN"
     \/ chan[c].rs = "CLOSING" /\ code = NORMAL_CLOSURE
  /\ LET w0 == [Begin("onclose", code) EXCEPT
                  !.chan[c].rs = "CLOSED", !.staleInFlight = FALSE]
     IN Commit(onclose(w0, code))

\* The 10 s timer of connect() on channel c expires: reject, nothing else.
Timeout(c) ==
  /\ chan[c].promise = "pending"
  /\ Commit(rejectConnect(Begin("timeout", c), c))

\* A backoff timer expires and attemptReconnect goes on to connect().  A
\* timer set earlier with no longer a delay expires first.
TimerFire(i, limit) ==
  /\ i \in 1..Len(timers)
  /\ isConnected \/ nChan < limit
  /\ \A j \in 1..(i - 1) : timers[j].delay > timers[i].delay
  /\ LET w0 == [Begin("reconnect", timers[i].k) EXCEPT !.timers = Remove(timers, i)]
         w == connect(w0, "reconnect")
     IN Commit(w)

\* The startAudio() of an attemptReconnect ends: capture runs, or it rejects.
MicDone(ok) ==
  /\ micPending > 0
  /\ LET w0 == [Begin("startAudio", 0) EXCEPT !.micPending = @ - 1]
     IN Commit(IF ok THEN startAudioDone(w0) ELSE reconnectFailed(w0))

\* The user calls startAudio(), which awaits the microphone.
UserStartAudio ==
  /\ micUser = 0
  /\ Commit([Begin("startAudio()", 0) EXCEPT !.micUser = 1])

\* The getUserMedia() that the startAudio() of the user awaits settles: the
\* stream is granted, or the request is rejected.
UserMicDone(ok) ==
  /\ micUser > 0
  /\ Commit(startAudio(Begin("startAudio", micUser), ok))

\* The capture graph delivers a block of samples (the message of the worklet,
\* or the audioprocess event of the script processor) while the capture
\* context is open.
AudioBlock ==
  /\ audioContext
  /\ nBlocks < MaxBlocks
  /\ Commit(sendAudio([Begin("audioprocess", nBlocks + 1) EXCEPT !.nBlocks = @ + 1]))

\* The audio thread renders q frames of the microphone: the worklet's
\* process() is called with them and each message it posts is handed to
\* sendAudio by port.onmessage; the script processor receives the same frames.
Render(q) ==
  /\ micFed + q <= MaxBlocks * bufferSize + bufferSize \div 2
  /\ LET input == [i \in 1..q |-> micFed + i]
         p == process([buffer |-> buffer, bufferIndex |-> bufferIndex, posted |-> <<>>],
                      input)
         s == onaudioprocess(scriptBuffer \o input, <<>>)
     IN Commit([Begin("render", q) EXCEPT
                  !.micFed = @ + q,
                  !.buffer = p.buffer,
                  !.bufferIndex = p.bufferIndex,
                  !.workletBlocks = p.posted,
                  !.nHanded = @ + Len(workletBlocks),
                  !.scriptBuffer = s.held,
                  !.scriptBlocks = s.handed])

\* A response.audio.delta frame arrives on channel c: len samples of PCM16, of the
\* response being streamed or (stale) of a response interrupt() cancelled.
AudioDelta(c, len, stale, cs) ==
  /\ chan[c].rs = "OPEN"
  /\ nDeltas < MaxDeltas
  /\ stale => staleInFlight
  /\ LET n == nDeltas + 1
         w0 == [Begin("response.audio.delta", IF stale THEN 1 ELSE 0) EXCEPT
                  !.nDeltas = n]
         w == audioDelta(w0, Payload("ok", 2 * len), n, cs)
     IN ~w.overflow /\ Commit(w)

\* The payloads that cannot be decoded (text that is not base64, an odd
\* number of bytes), and the empty one.
BadPayloads ==
  {Payload("invalid", 0), Payload("ok", 9601), Payload("empty", 0)}

\* A response.audio.delta frame arrives on channel c with a payload that is
\* not PCM16 audio.
MalformedDelta(c, payload, cs) ==
  /\ chan[c].rs = "OPEN"
  /\ payload \in BadPayloads
  /\ Commit(audioDelta(Begin("malformed.audio.delta", payload.bytes), payload, 0, cs))

\* sendAudio converts the sample.
EncodeSample ==
  /\ pcm16 = <<>>
  /\ Commit([Begin("encode", 0) EXCEPT !.pcm16 = <<floatTo16BitPCM(sample)>>])

\* The encoded sample comes back and handleAudioDelta converts it.
DecodeSample ==
  /\ pcm16 # <<>>
  /\ float32 = <<>>
  /\ Commit([Begin("decode", 0) EXCEPT !.float32 = <<pcm16ToFloat(pcm16[1])>>])

\* Text frames the protocol does not define, and the server's error frame.
TextFrames ==
  {[json |-> FALSE, type |-> "not JSON"],
   [json |-> TRUE, type |-> "mystery.event"],
   [json |-> TRUE, type |-> "session.updated"],
   [json |-> TRUE, type |-> "error"]}

\* A text frame arrives on channel c.
TextFrame(c, data) ==
  /\ chan[c].rs = "OPEN"
  /\ data \in TextFrames
  /\ Commit(handleMessage(Begin(data.type, 0), data))

\* A binary frame (raw audio) arrives on channel c.
BinaryFrame(c) ==
  /\ chan[c].rs = "OPEN"
  /\ Commit(binaryMessage(Begin("binary", 0)))

\* A response.done frame arrives on channel c.
ResponseDone(c) ==
  /\ chan[c].rs = "OPEN"
  /\ Commit(responseDone([Begin("response.done", 0) EXCEPT !.staleInFlight = FALSE]))

\* A transcript of the user's speech arrives on channel c.
UserTranscript(c, substantial) ==
  /\ chan[c].rs = "OPEN"
  /\ LET w0 == Begin("transcript", IF substantial THEN 1 ELSE 0)
     IN Commit(cancelled(w0, userTranscript(w0, substantial)))

\* The suspended playback context starts running: every pending resume()
\* resolves, in the order of the calls.
ResumeDone ==
  /\ playbackAudioContext = "suspended"
  /\ resumePending
  /\ LET w0 == [Begin("resume", 0) EXCEPT !.playbackAudioContext = "running",
                                          !.resumePending = FALSE,
                                          !.resumeWaiters = <<>>]
     IN Commit(resumeAll(w0, resumeWaiters, "running"))

\* The browser suspends the running playback context (an interruption of
\* the audio session); nothing has asked it to resume yet.
SuspendContext ==
  /\ playbackAudioContext = "running"
  /\ Commit([Begin("suspended", 0) EXCEPT !.playbackAudioContext = "suspended"])

\* The pending resume() calls of a closed context are rejected.
ResumeRejected(cs) ==
  /\ deadWaiters # <<>>
  /\ LET w0 == [Begin("resumeRejected", 0) EXCEPT !.deadWaiters = Tail(@)]
     IN Commit(rejectAll(w0, Head(deadWaiters), cs))

\* The ended event of the source of loop l: it played out, or was stopped.
SourceEnded(l, cs) ==
  /\ loops[l].pc \in {"playing", "stopped"}
  /\ Commit(onended(Begin("onended", l), l, cs))

\* The clock of the running playback context advances by the time of d samples.
Tick(d) ==
  /\ playbackAudioContext = "running"
  /\ currentTime + d <= MaxClock * MIN_CHUNK_SIZE
  /\ Commit([Begin("tick", d) EXCEPT !.currentTime = @ + d])

\* The error event of the source of loop l: the chunk cannot be played.
SourceError(l, cs) ==
  /\ loops[l].pc = "playing"
  /\ Commit(onSourceError(Begin("source.onerror", l), l, cs))

\* The connection supervisor under an unreliable network: the handlers that
\* read or write isConnected, reconnectAttempts, isManuallyDisconnected, the
\* channels or the backoff timers.
NextConn ==
  \/ UserConnect(ConnChans)
  \/ UserDisconnect
  \/ \E c \in Chans : Open(c)
  \/ \E c \in Chans : Fail(c)
  \/ \E c \in Chans, code \in CloseCodes : Close(c, code)
  \/ \E c \in Chans : Timeout(c)
  \/ \E i \in 1..MaxTimers : TimerFire(i, ConnChans)
  \/ \E ok \in BOOLEAN : MicDone(ok)

SpecConn == Init /\ [][NextConn]_vars

\* The supervisor together with what else sets the state of the connection:
\* interrupt() and the frames without audio.
NextSession ==
  \/ NextConn
  \/ UserInterrupt
  \/ \E c \in Chans : ResponseDone(c)
  \/ \E c \in Chans, substantial \in BOOLEAN : UserTranscript(c, substantial)

SpecSession == Init /\ [][NextSession]_vars

\* The playback scheduler over channels that close only when asked to.
NextPlay ==
  \/ UserConnect(PlayChans)
  \/ UserDisconnect
  \/ UserInterrupt
  \/ UserStopAudio
  \/ \E c \in Chans : Open(c)
  \/ \E c \in Chans : Close(c, NORMAL_CLOSURE)
  \/ \E c \in Chans, len \in DeltaLens, stale \in BOOLEAN, cs \in ContextStates :
       AudioDelta(c, len, stale, cs)
  \/ \E c \in Chans : ResponseDone(c)
  \/ \E c \in Chans, substantial \in BOOLEAN : UserTranscript(c, substantial)
  \/ SuspendContext
  \/ ResumeDone
  \/ \E cs \in ContextStates : ResumeRejected(cs)
  \/ \E l \in LoopIds, cs \in ContextStates : SourceEnded(l, cs)
  \/ \E l \in LoopIds, cs \in ContextStates : SourceError(l, cs)

SpecPlay == Init /\ [][NextPlay]_vars

\* Reconnection while the server stays unreachable: the first channel opens
\* and is lost, and no later channel opens.
NextRetry ==
  \/ UserConnect(1)
  \/ Open(1)
  \/ \E c \in Chans : Fail(c)
  \/ \E c \in Chans, code \in CloseCodes : Close(c, code)
  \/ \E c \in Chans : Timeout(c)
  \/ \E i \in 1..MaxTimers : TimerFire(i, RetryChans)

SpecRetry == Init /\ [][NextRetry]_vars

\* The same, with what the browser guarantees: a timer that was set
\* expires, and a channel to a server that stays unreachable fails.
SpecRetryFair ==
  /\ SpecRetry
  /\ WF_vars(\E i \in 1..MaxTimers : TimerFire(i, RetryChans))
  /\ WF_vars(\E c \in Chans : Fail(c))

\* A live session: frames, playback and interruptions, with no teardown and
\* a context the browser suspends only at its creation.
NextCancel ==
  \/ UserConnect(PlayChans)
  \/ UserInterrupt
  \/ \E c \in Chans : Open(c)
  \/ \E c \in Chans, len \in DeltaLens, stale \in BOOLEAN, cs \in ContextStates :
       AudioDelta(c, len, stale, cs)
  \/ \E c \in Chans : ResponseDone(c)
  \/ \E c \in Chans, substantial \in BOOLEAN : UserTranscript(c, substantial)
  \/ ResumeDone
  \/ \E l \in LoopIds, cs \in ContextStates : SourceEnded(l, cs)

SpecCancel == Init /\ [][NextCancel]_vars

\* Sessions that are set up, used and torn down: capture, playback of
\* deltas of full chunk size, and disconnect().
NextTeardown ==
  \/ UserConnect(PlayChans)
  \/ UserDisconnect
  \/ UserStartAudio
  \/ \E ok \in BOOLEAN : UserMicDone(ok)
  \/ \E c \in Chans : Open(c)
  \/ \E c \in Chans : Close(c, NORMAL_CLOSURE)
  \/ \E c \in Chans, cs \in ContextStates :
       AudioDelta(c, MIN_CHUNK_SIZE, FALSE, cs)
  \/ ResumeDone
  \/ \E cs \in ContextStates : ResumeRejected(cs)
  \/ \E l \in LoopIds, cs \in ContextStates : SourceEnded(l, cs)

SpecTeardown == Init /\ [][NextTeardown]_vars

\* Playback of one response over a live channel, with chunks that fail.
NextDrain ==
  \/ UserConnect(PlayChans)
  \/ \E c \in Chans : Open(c)
  \/ \E c \in Chans, len \in DeltaLens, cs \in ContextStates :
       AudioDelta(c, len, FALSE, cs)
  \/ \E c \in Chans : ResponseDone(c)
  \/ ResumeDone
  \/ \E l \in LoopIds, cs \in ContextStates : SourceEnded(l, cs)
  \/ \E l \in LoopIds, cs \in ContextStates : SourceError(l, cs)
  \/ \E c \in Chans, payload \in BadPayloads, cs \in ContextStates :
       MalformedDelta(c, payload, cs)
  \/ \E c \in Chans : BinaryFrame(c)
  \/ \E c \in Chans, data \in TextFrames : TextFrame(c, data)

SpecDrain == Init /\ [][NextDrain]_vars

\* The scheduling of the chunks of a response against the audio clock.
NextSchedule ==
  \/ UserConnect(PlayChans)
  \/ \E c \in Chans : Open(c)
  \/ \E c \in Chans, len \in DeltaLens, cs \in ContextStates :
       AudioDelta(c, len, FALSE, cs)
  \/ ResumeDone
  \/ \E l \in LoopIds, cs \in ContextStates : SourceEnded(l, cs)
  \/ \E d \in DeltaLens : Tick(d)

SpecSchedule == Init /\ [][NextSchedule]_vars

\* The ended event of a source that played out: the clock has reached the
\* end of the chunk, which is where the schedule cursor stands.
PlayedOut(l, cs) ==
  /\ loops[l].pc = "playing"
  /\ currentTime >= nextNoteTime
  /\ SourceEnded(l, cs)

\* The ended event of a source that stop() cut short.
StopDelivered(l, cs) ==
  /\ loops[l].pc = "stopped"
  /\ SourceEnded(l, cs)

\* Scheduling against the audio clock across interruptions and two sessions,
\* with deltas of full chunk size: a source ends when the clock has reached
\* its end, or when it was stopped.
NextGap ==
  \/ UserConnect(2)
  \/ UserDisconnect
  \/ UserInterrupt
  \/ \E c \in Chans : Open(c)
  \/ \E c \in Chans, cs \in ContextStates :
       AudioDelta(c, MIN_CHUNK_SIZE, FALSE, cs)
  \/ ResumeDone
  \/ \E cs \in ContextStates : ResumeRejected(cs)
  \/ \E l \in LoopIds, cs \in ContextStates : PlayedOut(l, cs)
  \/ \E l \in LoopIds, cs \in ContextStates : StopDelivered(l, cs)
  \/ Tick(MIN_CHUNK_SIZE)

SpecGap == Init /\ [][NextGap]_vars

\* Playback in one session that is interrupted, muted and torn down while
\* chunks are queued, awaited or playing.
NextStrand ==
  \/ UserConnect(1)
  \/ UserDisconnect
  \/ UserInterrupt
  \/ UserStopAudio
  \/ Open(1)
  \/ \E c \in Chans, len \in DeltaLens, cs \in ContextStates :
       AudioDelta(c, len, FALSE, cs)
  \/ ResumeDone
  \/ \E cs \in ContextStates : ResumeRejected(cs)
  \/ \E l \in LoopIds, cs \in ContextStates : SourceEnded(l, cs)
  \/ \E l \in LoopIds, cs \in ContextStates : SourceError(l, cs)

SpecStrand == Init /\ [][NextStrand]_vars

\* What the audio subsystem does on its own for a drain loop that waits: the
\* source it started ends, the resume() it called settles.
AudioSettles ==
  \/ \E l \in LoopIds, cs \in ContextStates : SourceEnded(l, cs)
  \/ ResumeDone
  \/ \E cs \in ContextStates : ResumeRejected(cs)

\* AudioSettles is enabled: a source was started or stopped and its event is
\* due, a resume() of the context held is pending, or one of a closed context.
AudioWaits ==
  \/ \E l \in LoopIds : loops[l].pc \in {"playing", "stopped"}
  \/ playbackAudioContext = "suspended" /\ resumePending
  \/ deadWaiters # <<>>

\* The same, assuming that the audio subsystem does not stall for ever while
\* a source is started or a resume() is pending: weak fairness of
\* AudioSettles, WF_vars(AudioSettles), with ENABLED <<AudioSettles>>_vars
\* written out as AudioWaits.
SpecStrandFair ==
  /\ SpecStrand
  /\ ([]<>(~AudioWaits) \/ []<><<AudioSettles>>_vars)

\* Capture over a channel that opens, closes and is replaced: startAudio(),
\* stopAudio(), the blocks of the capture graph.
NextCapture ==
  \/ UserConnect(ConnChans)
  \/ UserDisconnect
  \/ UserStartAudio
  \/ \E ok \in BOOLEAN : UserMicDone(ok)
  \/ UserStopAudio
  \/ \E c \in Chans : Open(c)
  \/ \E c \in Chans : Close(c, NORMAL_CLOSURE)
  \/ AudioBlock

SpecCapture == Init /\ [][NextCapture]_vars

\* The two capture graphs fed the same microphone stream, in render quanta
\* of the usual size and in runs longer than the buffer.
Quanta == {128, 5000}

NextWorklet == \E q \in Quanta : Render(q)

SpecWorklet == InitWorklet /\ [][NextWorklet]_vars

\* The codec on its own: one sample encoded, then decoded.
NextCodec ==
  \/ EncodeSample
  \/ DecodeSample

SpecCodec == InitCodec /\ [][NextCodec]_vars

\* Everything at once.
Next ==
  \/ NextSession
  \/ NextPlay
  \/ NextTeardown
  \/ NextDrain
  \/ NextSchedule
  \/ NextCodec
  \/ NextCapture
  \/ NextWorklet
  \/ NextStrand
  \/ NextGap

Spec == Init /\ [][Next]_vars

---------------------------------------------------------------------------
\* Properties

ActiveLoops == {l \in LoopIds : loops[l].pc # "idle"}

\* The states a task put the connection in, in order, after the one it found.
RECURSIVE StatesOf(_)
StatesOf(cbs) ==
  IF cbs = <<>> THEN <<>>
  ELSE IF Head(cbs)[1] = "onStateChange"
    THEN <<Head(cbs)[2]>> \o StatesOf(Tail(cbs))
    ELSE StatesOf(Tail(cbs))

\* The arrival numbers of the deltas of a sequence of chunks, in the order played.
Numbers(chunks) == LET f == Flatten(chunks) IN [i \in 1..Len(f) |-> f[i].n]

Increasing(ns) == \A i \in 1..(Len(ns) - 1) : ns[i] < ns[i + 1]

\* C1: at most one activation of processAudioQueue that has passed the
\* isPlayingAudio guard and has not returned exists at any time.
C1_SingleDrainLoop == Cardinality(ActiveLoops) <= 1

\* C2: the chunks that are played are started in the order their deltas
\* arrived, and a merged chunk holds its deltas in arrival order: every delta
\* a task hands to source.start() arrived after the one started before it.
C2_FifoPlayback ==
  [][Increasing(<<lastStarted>> \o Numbers(turn'.started)) /\
     Increasing(Numbers(audioQueue'))]_vars

\* C3: after interrupt() the queue is empty, isPlayingAudio and isSpeaking
\* are false, and no chunk is started between that interrupt() and the
\* arrival of the next audio delta.
C3_InterruptClearsState ==
  /\ [](turn.op = "interrupt" =>
          audioQueue = <<>> /\ ~isPlayingAudio /\ ~isSpeaking)
  /\ [][(quietSinceInterrupt /\ turn'.op # "response.audio.delta")
          => turn'.started = <<>>]_vars

\* C4: an audio delta of the response interrupt() cancelled that arrives
\* after that interrupt() is not queued, not played, and does not move the
\* state back to speaking.
C4_StaleDeltaRejected ==
  [][(turn'.op = "response.audio.delta" /\ turn'.arg = 1)
       => /\ audioQueue' = audioQueue
          /\ turn'.started = <<>>
          /\ isSpeaking' = isSpeaking
          /\ currentState' = currentState]_vars

\* C5: an interrupt() while the channel held is open sends exactly one
\* response.cancel on it and nothing else, empties the queue, and a call of
\* interrupt() by the user leaves the state listening, all in the same task.
C5_InterruptCancels ==
  [][(turn'.interrupted /\ ws # 0 /\ chan[ws].rs = "OPEN")
       => /\ turn'.sent = << <<ws, "response.cancel">> >>
          /\ audioQueue' = <<>>
          /\ (turn'.op = "interrupt" => currentState' = "listening")]_vars

\* interrupt() was called with two chunks queued behind one that was playing.
C5_Witness ==
  /\ turn.op = "interrupt"
  /\ turn.dropped = 2
  /\ \E l \in LoopIds : loops[l].pc = "stopped"
  /\ Len(turn.sent) = 1
  /\ currentState = "listening"

\* The states the connection went through in the step: the one the task
\* found, then every one it set.
StatePath == <<currentState>> \o StatesOf(turn'.cbs)

\* C6: currentState never changes from connecting directly to listening,
\* speaking or processing.
C6_NoShortcutFromConnecting ==
  [][\A i \in 1..(Len(StatePath) - 1) :
       StatePath[i] = "connecting" =>
         StatePath[i + 1] \notin {"listening", "speaking", "processing"}]_vars

\* The delays the specification lists for the attempts 1..5, in ms.
ListedDelays == <<1000, 2000, 4000, 8000, 16000>>

\* C7: reconnectAttempts never exceeds maxReconnectAttempts, and the
\* backoff timer of the attempt that raised the counter to k runs for
\* reconnectDelay * 2^(k-1) ms: 1000, 2000, 4000, 8000, 16000 for k = 1..5.
C7_ReconnectCapAndBackoff ==
  /\ reconnectAttempts \in 0..maxReconnectAttempts
  /\ \A i \in 1..Len(timers) :
       /\ timers[i].k \in 1..maxReconnectAttempts
       /\ timers[i].delay = ListedDelays[timers[i].k]
       /\ timers[i].delay = reconnectDelay * Pow2(timers[i].k - 1)

\* The fifth attempt, the last the cap allows, is waiting out its delay.
C7_Witness ==
  /\ reconnectAttempts = maxReconnectAttempts
  /\ ~isManuallyDisconnected
  /\ \E i \in 1..Len(timers) :
       timers[i].k = maxReconnectAttempts /\ timers[i].delay = ListedDelays[5]

\* The reports of the fatal reconnection failure among the callbacks of a task.
FatalReports(cbs) ==
  Cardinality({i \in 1..Len(cbs) :
                 /\ cbs[i][1] = "onError"
                 /\ cbs[i][2] \in {"Failed to reconnect",
                                   "Max reconnection attempts reached"}})

\* C8: the exhaustion of the reconnect attempts is reported through onError
\* once, and after the report no backoff timer is set, no channel is
\* created and no second report is made while the channel has not reopened.
C8_ExhaustionReportedOnce ==
  [][/\ FatalReports(turn'.cbs) <= 1
     /\ fatalReported =>
          /\ ~turn'.newChan
          /\ turn'.newTimers = 0
          /\ FatalReports(turn'.cbs) = 0]_vars

\* C9: after a disconnect() called while a reconnect attempt was waiting out
\* its delay or opening its channel, and until the user calls connect()
\* again, no channel is created, the client does not become connected and
\* isManuallyDisconnected stays true.
C9_DisconnectSupersedesReconnect ==
  [][(userDisconnected = "midReconnect" /\ userDisconnected' = "midReconnect")
       => /\ ~turn'.newChan
          /\ ~isConnected'
          /\ isManuallyDisconnected']_vars

\* The close handler ran in the step, and started a reconnect attempt: it
\* raised the counter by one and set the timer of that attempt.
ClosureStep == turn'.op \in {"onclose", "onerror+onclose"}
ClosureReconnects ==
  /\ reconnectAttempts' = turn'.attempts + 1
  /\ timers' # <<>>
  /\ timers'[Len(timers')].k = reconnectAttempts'
  /\ ~\E i \in 1..Len(turn'.cbs) : turn'.cbs[i][1] = "onClose"
ClosureGivesUp ==
  /\ reconnectAttempts' = turn'.attempts
  /\ Len(timers') = Len(timers) + turn'.newTimers
  /\ turn'.cbs[Len(turn'.cbs)] = <<"onClose", "">>

\* C10: a closure with code 1000, or with the manual-disconnect flag set,
\* starts no reconnect attempt and invokes onClose; a closure with another
\* code, the flag clear and attempts remaining starts a reconnect attempt.
C10_ClosurePolicy ==
  [][ClosureStep =>
       IF turn'.arg = 1000 \/ isManuallyDisconnected
         THEN ClosureGivesUp
       ELSE IF turn'.attempts < maxReconnectAttempts
         THEN ClosureReconnects
       ELSE ClosureGivesUp]_vars

\* The server closed the channel with code 1000 while the client was not
\* manually disconnected and had attempts remaining: onClose was invoked.
C10_Witness ==
  /\ turn.op = "onclose"
  /\ turn.arg = 1000
  /\ ~isManuallyDisconnected
  /\ turn.attempts < maxReconnectAttempts
  /\ turn.newTimers = 0
  /\ turn.cbs[Len(turn.cbs)] = <<"onClose", "">>

\* A step in which a connect() that was awaiting its channel fails: its
\* deadline expires, or the channel reports an error.
ConnectFails ==
  /\ turn'.op \in {"timeout", "onerror+onclose"}
  /\ \E c \in Chans : chan[c].promise = "pending" /\ chan'[c].promise = "settled"

\* C11: a connection failure during connect() (the open deadline expiring,
\* or a socket error) puts the session in state error and, unless the session
\* is manually disconnected (and while attempts remain), starts a reconnect
\* attempt.
C11_ConnectFailureRecovers ==
  [][ConnectFails =>
       /\ \E i \in 2..Len(StatePath) : StatePath[i] = "error"
       /\ (~isManuallyDisconnected /\ reconnectAttempts < maxReconnectAttempts)
            => turn'.newTimers > 0]_vars

\* C12: a connect() called by the user while the session is connected throws
\* Already connected and changes nothing: the channel held and every
\* channel, the callbacks, currentState, reconnectAttempts and the
\* manual-disconnect flag are as before, and nothing is called back.
C12_DuplicateConnectRejected ==
  [][(turn'.op = "connect" /\ isConnected) =>
       /\ turn'.threw = "Already connected"
       /\ ~turn'.registered
       /\ turn'.cbs = <<>>
       /\ UNCHANGED <<ws, chan, currentState, reconnectAttempts,
                      isManuallyDisconnected, isConnected, timers>>]_vars

\* connect() was called on a connected session.
C12_Witness ==
  /\ turn.op = "connect"
  /\ turn.threw = "Already connected"
  /\ isConnected
  /\ ws # 0 /\ chan[ws].rs = "OPEN"

\* C13: the open handler of every channel that opens transmits a start
\* frame on that channel, the first frame of the task, before the state
\* becomes connected; and any other frame goes out on a channel that was
\* open, hence had run its open handler, before the task that sends it.
C13_StartFrameFirst ==
  [][/\ turn'.op = "onopen" =>
          /\ turn'.sent # <<>>
          /\ turn'.sent[1] = <<turn'.arg, "start">>
          /\ currentState' = "connected"
     /\ \A i \in 1..Len(turn'.sent) :
          turn'.sent[i][2] # "start" => chan[turn'.sent[i][1]].rs = "OPEN"]_vars

AttemptsMade ==
  Len(timers) + Cardinality({c \in Chans : chan[c].awaiter = "reconnect"})

\* The client has stopped retrying.
Stopped ==
  /\ timers = <<>>
  /\ \A c \in Chans : chan[c].rs # "CONNECTING"

\* C15: once a closure has started the reconnect procedure the client is
\* eventually connected again or has stopped retrying (no backoff timer
\* pending, no channel opening), and no more than maxReconnectAttempts
\* attempts are made on the way, whichever handler started them.
C15_ReconnectBounded ==
  /\ [](AttemptsMade <= maxReconnectAttempts)
  /\ (timers # <<>>) ~> (isConnected \/ Stopped)

\* The client has given up after making all five attempts.
C15_Witness ==
  /\ Stopped
  /\ AttemptsMade = maxReconnectAttempts
  /\ fatalReported
  /\ ~isConnected

\* What the specification says the queue Q is after queueAudio(B).
MergedOrPushed(Q, B) ==
  IF Q # <<>> /\ Length(Q[Len(Q)]) < 9600
    THEN [i \in 1..Len(Q) |-> IF i = Len(Q) THEN Q[i] \o B ELSE Q[i]]
    ELSE Q \o <<B>>

\* The entries queueAudio left in the queue in the step: those the drain
\* loop it started took at once, then those still queued.
QueuedInStep == turn'.started \o audioQueue'

\* C16: queueAudio(B) replaces a tail entry A of fewer than 9600 samples by
\* one entry, A followed by B, of length len(A)+len(B), and otherwise pushes
\* B as a new tail entry; every other entry is unchanged.
C16_MergeOrPush ==
  [][turn'.op = "response.audio.delta" =>
       \E len \in DeltaLens :
         LET B == <<[n |-> nDeltas', len |-> len]>>
         IN /\ QueuedInStep = MergedOrPushed(audioQueue, B)
            /\ Length(QueuedInStep[Len(QueuedInStep)]) =
                 len + (IF Len(QueuedInStep) = Len(audioQueue)
                          THEN Length(audioQueue[Len(audioQueue)]) ELSE 0)]_vars

\* A delta was merged into the small tail of a queue of two entries.
C16_Witness ==
  /\ turn.op = "response.audio.delta"
  /\ Len(audioQueue) = 2
  /\ Length(audioQueue[1]) >= 9600
  /\ Len(audioQueue[2]) = 2
  /\ audioQueue[2][2].n = nDeltas

\* The step is the rejection of a playAudioChunk by the error of its source.
ChunkFails == turn'.op = "source.onerror"

\* C17: when playAudioChunk rejects, the drain loop goes on: it pops the next
\* queued chunk and plays it (once the context runs), or, with nothing left to play, ends with the queue
\* empty and isPlayingAudio false; onError is not invoked.
C17_ChunkFailureSkipped ==
  [][ChunkFails =>
       /\ \A i \in 1..Len(turn'.cbs) : turn'.cbs[i][1] # "onError"
       /\ IF audioQueue # <<>> /\ isPlayingAudio
            THEN /\ audioQueue' = Tail(audioQueue)
                 /\ loops'[turn'.arg].chunk = Head(audioQueue)
                 /\ \/ /\ loops'[turn'.arg].pc = "playing"
                       /\ turn'.started = <<Head(audioQueue)>>
                    \/ /\ loops'[turn'.arg].pc = "resumeA"
                       /\ playbackAudioContext = "suspended"
                 /\ isPlayingAudio'
            ELSE /\ audioQueue' = <<>>
                 /\ ~isPlayingAudio'
                 /\ loops'[turn'.arg] = NoLoop]_vars

\* A chunk failed with another queued behind it, and the loop went on to
\* play that one.
C17_Witness ==
  /\ turn.op = "source.onerror"
  /\ turn.started # <<>>
  /\ turn.cbs = <<>>
  /\ isPlayingAudio
  /\ loops[turn.arg].pc = "playing"

\* The step is the arrival of an audio delta that cannot be decoded.
MalformedStep ==
  /\ turn'.op = "malformed.audio.delta"
  /\ \E p \in BadPayloads : p.b64 # "empty" /\ p.bytes = turn'.arg

\* C18: an audio delta that cannot be decoded is dropped inside the message
\* handler: the queue and the drain loops are as before, onError is not
\* invoked, nothing is thrown and the session stays connected; a valid delta
\* that arrives afterwards is queued or played.
C18_MalformedDeltaDropped ==
  /\ [][MalformedStep =>
          /\ UNCHANGED <<audioQueue, loops, isPlayingAudio, audioSourceNode,
                         lastStarted, ws, chan, isConnected>>
          /\ isConnected
          /\ turn'.threw = ""
          /\ \A i \in 1..Len(turn'.cbs) : turn'.cbs[i][1] # "onError"]_vars
  /\ [][(turn'.op = "response.audio.delta" /\ turn.op = "malformed.audio.delta") =>
          /\ QueuedInStep # <<>>
          /\ LET last == QueuedInStep[Len(QueuedInStep)]
             IN last[Len(last)].n = nDeltas'
          /\ isPlayingAudio']_vars

\* A delta that cannot be decoded arrived while chunks were queued and one
\* was playing.
C18_Witness ==
  /\ turn.op = "malformed.audio.delta"
  /\ turn.arg = 9601
  /\ audioQueue # <<>>
  /\ isPlayingAudio
  /\ audioSourceNode # 0

\* The start time of the i-th chunk started in the step, as the
\* specification gives it: the later of the clock and the cursor.
ScheduledAt(i) ==
  Max(currentTime', IF i = 1 THEN nextNoteTime
                    ELSE turn'.startTimes[i - 1] + duration(turn'.started[i - 1]))

\* C19: a chunk is started at max(currentTime, nextNoteTime); nextNoteTime
\* is then that start time plus the duration of the chunk, never behind the
\* clock; nextNoteTime never decreases.
C19_ScheduleCursor ==
  [][/\ Len(turn'.startTimes) = Len(turn'.started)
     /\ \A i \in 1..Len(turn'.started) : turn'.startTimes[i] = ScheduledAt(i)
     /\ turn'.started # <<>> =>
          LET n == Len(turn'.started)
          IN /\ nextNoteTime' = turn'.startTimes[n] + duration(turn'.started[n])
             /\ nextNoteTime' >= currentTime'
     /\ turn'.started = <<>> => nextNoteTime' = nextNoteTime
     /\ nextNoteTime' >= nextNoteTime]_vars

\* After the clock has run, a chunk was started at the cursor, ahead of the
\* clock, behind an earlier chunk.
C19_Witness ==
  /\ turn.started # <<>>
  /\ turn.startTimes[1] > currentTime
  /\ currentTime > 0
  /\ nextNoteTime = turn.startTimes[1] + duration(turn.started[1])
  /\ lastStarted > 1

\* C20: onStateChange is invoked exactly when currentState changes, in the
\* same step and with the new value: every notification of a step carries a
\* state other than the one before it, and the state after the step is the
\* last one notified (the state before, when nothing was notified).
C20_NotifyOnChangeOnly ==
  [][/\ \A i \in 2..Len(StatePath) : StatePath[i] # StatePath[i - 1]
     /\ currentState' = StatePath[Len(StatePath)]]_vars

\* A task that changed the state twice, with a notification for each, after
\* setting it to the value it had (connect() while "connecting").
C20_Witness ==
  /\ turn.op = "onerror+onclose"
  /\ StatesOf(turn.cbs) = <<"error", "connecting">>
  /\ currentState = "connecting"


\* C21: a raw binary frame is handled as a decoded response.audio.delta is:
\* its audio is put in the playback queue (or started at once) and playback
\* is under way after the step.
C21_BinaryFrameQueued ==
  [][turn'.op = "binary" =>
       /\ isPlayingAudio'
       /\ QueuedInStep # audioQueue]_vars


\* The distance between the sample and its round trip, in units of
\* 1/SampleUnit (the decoded value is float32[1] / 32768).
RoundTripError ==
  LET d == sample - float32[1] * SubSteps
  IN IF d >= 0 THEN d ELSE -d

\* C22: a sample in [-1, 1] that is encoded as sendAudio does and decoded as
\* handleAudioDelta does comes back within 1/32768 of itself.
C22_RoundTripBound ==
  (float32 # <<>> /\ sample \in (-SampleUnit)..SampleUnit) => RoundTripError <= SubSteps


\* The frames of type input_audio_buffer.append sent in the step.
AppendFrames ==
  {i \in 1..Len(turn'.sent) : turn'.sent[i][2] = "input_audio_buffer.append"}

\* C23: a capture block produced while the channel held is open is sent as
\* exactly one input_audio_buffer.append frame, on that channel, in the step
\* that produces it (hence in production order); a block produced while it is
\* not open is dropped: no append frame is sent in any other step.
C23_CaptureFramesInOrder ==
  [][/\ turn'.op = "audioprocess" =>
          /\ turn'.arg = nBlocks + 1
          /\ turn'.sent = IF ws # 0 /\ chan[ws].rs = "OPEN"
                            THEN << <<ws, "input_audio_buffer.append">> >>
                            ELSE <<>>
          /\ UNCHANGED <<ws, chan, isConnected, audioQueue, mediaStream,
                         audioContext, audioWorkletNode>>
     /\ turn'.op # "audioprocess" => AppendFrames = {}]_vars

\* A block was dropped while the channel was closing, after an earlier block
\* had been sent.
C23_Witness ==
  /\ turn.op = "audioprocess"
  /\ turn.arg > 1
  /\ turn.sent = <<>>
  /\ ws # 0
  /\ chan[ws].rs \in {"CONNECTING", "CLOSED"}


\* C24: stopAudio() touches only the capture side: the playback context, the
\* playback queue, the draining flag and the source that is playing are as
\* before.
C24_StopAudioSparesPlayback ==
  [][turn'.op = "stopAudio" =>
       UNCHANGED <<audioQueue, isPlayingAudio, audioSourceNode, loops,
                   playbackAudioContext>>]_vars


\* C25: stopAudio() is idempotent and never throws: a call right after
\* another changes nothing, and after any call, capture started or not, the
\* stream and the capture nodes are released, the queue is empty and nothing
\* is playing.
C25_StopAudioIdempotent ==
  /\ [](turn.op = "stopAudio" =>
          /\ turn.threw = ""
          /\ ~mediaStream /\ ~audioWorkletNode
          /\ audioQueue = <<>> /\ ~isPlayingAudio /\ audioSourceNode = 0)
  /\ [][(turn'.op = "stopAudio" /\ turn'.arg = 1) =>
          UNCHANGED <<ws, isConnected, reconnectAttempts, currentState, isSpeaking,
                      audioQueue, isPlayingAudio, audioSourceNode,
                      isManuallyDisconnected, playbackAudioContext, mediaStream,
                      audioContext, audioWorkletNode, nextNoteTime, chan, timers,
                      loops, resumeWaiters, deadWaiters, resumePending>>]_vars

\* stopAudio() was called a second time in a row, capture having run.
C25_Witness ==
  /\ turn.op = "stopAudio"
  /\ turn.arg = 1
  /\ audioContext
  /\ ~turn.released


\* C26: when the request for the microphone with the speech constraints is
\* rejected, startAudio() asks once more with minimal constraints; when that
\* is rejected too it rejects with the error, having created no capture
\* context or graph, and asks no more.
C26_MicrophoneRetriedOnce ==
  /\ [](micUser \in 0..2)
  /\ [][(turn'.op = "startAudio" /\ turn'.arg > 0) =>
          /\ turn'.arg = micUser
          /\ \/ /\ micUser' = 0 /\ turn'.threw = ""
                /\ mediaStream' /\ audioContext' /\ audioWorkletNode'
             \/ /\ micUser = 1 /\ micUser' = 2 /\ turn'.threw = ""
                /\ UNCHANGED <<mediaStream, audioContext, audioWorkletNode>>
             \/ /\ micUser = 2 /\ micUser' = 0 /\ turn'.threw = "getUserMedia"
                /\ UNCHANGED <<mediaStream, audioContext, audioWorkletNode>>]_vars

\* The retry was rejected too: startAudio() threw and there is no capture
\* context.
C26_Witness ==
  /\ turn.op = "startAudio"
  /\ turn.arg = 2
  /\ turn.threw = "getUserMedia"
  /\ micUser = 0
  /\ ~audioContext /\ ~mediaStream /\ ~audioWorkletNode


\* The samples the worklet holds for its next block.
Pending == SubSeq(buffer, 1, bufferIndex)

\* The k-th block of 4096 samples of the microphone stream.
StreamBlock(k) == [i \in 1..4096 |-> 4096 * (k - 1) + i]

\* C27: for the same microphone stream the worklet path and the script
\* processor path hand sendAudio the same sequence of blocks of 4096 samples;
\* every sample the worklet received is in exactly one block, or still
\* pending, in input order; bufferIndex is within 0..4095 between calls.
C27_WorkletMatchesFallback ==
  /\ workletBlocks = scriptBlocks
  /\ \A i \in 1..Len(workletBlocks) : workletBlocks[i] = StreamBlock(nHanded + i)
  /\ Pending = [i \in 1..bufferIndex |-> 4096 * (nHanded + Len(workletBlocks)) + i]
  /\ micFed = 4096 * (nHanded + Len(workletBlocks)) + bufferIndex
  /\ bufferIndex \in 0..4095

\* One call of process() filled a buffer that was part full, filled it
\* again and left it part full.
C27_Witness ==
  /\ turn.op = "render"
  /\ Len(workletBlocks) = 2
  /\ Len(scriptBlocks) = 2
  /\ bufferIndex > 0
  /\ bufferIndex % 128 # 0


\* C28: a text frame that is not JSON, or whose type the client does not
\* know, is ignored: the state, isSpeaking, the queue, the connection flags
\* and the reconnect counter are unchanged, no callback is invoked and no
\* frame is sent.
C28_UnknownFrameIgnored ==
  [][turn'.op \in {"not JSON", "mystery.event"} =>
       /\ turn'.cbs = <<>>
       /\ turn'.sent = <<>>
       /\ turn'.threw = ""
       /\ UNCHANGED <<currentState, isSpeaking, audioQueue, isPlayingAudio, loops,
                      isConnected, isManuallyDisconnected, reconnectAttempts,
                      ws, chan, timers>>]_vars

\* A frame of a type the client does not know arrived while the assistant
\* was speaking and audio was queued.
C28_Witness ==
  /\ turn.op = "mystery.event"
  /\ isSpeaking
  /\ currentState = "speaking"
  /\ audioQueue # <<>>


\* C29: at most one channel created by the client is open or opening at any
\* time, and a channel the client no longer references is not open or opening.
LiveChans == {c \in DOMAIN chan : chan[c].rs \in {"CONNECTING", "OPEN"}}

C29_SingleLiveChannel ==
  /\ Cardinality(LiveChans) <= 1
  /\ LiveChans \subseteq {ws}


\* C30: events of a channel that is not the client's current channel are
\* ignored: they change none of isConnected, currentState, reconnectAttempts
\* and the manual-disconnect flag and start no reconnect; and isConnected is
\* true only while the channel held in ws is open.
C30_StaleChannelEventsIgnored ==
  /\ [](isConnected => (ws # 0 /\ chan[ws].rs = "OPEN"))
  /\ [][(turn'.op = "onopen" /\ turn'.arg # ws) =>
         UNCHANGED <<isConnected, currentState, reconnectAttempts,
                     isManuallyDisconnected, timers>>]_vars


\* C31: at most one reconnect attempt is in flight at any time, waiting out
\* its backoff delay or opening its channel.
AttemptsInFlight ==
  Len(timers) + Cardinality({c \in Chans : /\ chan[c].awaiter = "reconnect"
                                            /\ chan[c].promise = "pending"})

C31_SingleReconnectInFlight == AttemptsInFlight <= 1


\* C32: once a reconnect attempt has reopened the channel, and while that
\* channel stays open, no backoff is started, no reconnect attempt is counted
\* and no reconnect failure is reported through onError, also when the
\* startAudio() that follows the reopening fails.
Reopened ==
  /\ isConnected
  /\ ws # 0
  /\ chan[ws].rs = "OPEN"
  /\ chan[ws].awaiter = "reconnect"

C32_ReopenEndsReconnect ==
  [][(Reopened /\ Reopened' /\ ws' = ws) =>
       /\ turn'.newTimers = 0
       /\ reconnectAttempts' = reconnectAttempts
       /\ FatalReports(turn'.cbs) = 0]_vars


\* C33: at most one capture pipeline (a live media stream with its block
\* processor feeding sendAudio) exists at any time: no startAudio() builds a
\* pipeline while the stream of an earlier one is held and live, leaving that
\* one running next to the new one.
C33_SingleCapturePipeline == ~turn.replaced


C35_IdleChunkStartsNow ==
  [][(/\ turn'.op = "response.audio.delta"
      /\ ActiveLoops = {}
      /\ audioQueue = <<>>
      /\ turn'.startTimes # <<>>) =>
        turn'.startTimes[1] = currentTime']_vars


\* C36: a user transcript of more than two non-blank characters that arrives
\* while assistant audio is queued or playing interrupts the playback.
AudioPending ==
  \/ audioQueue # <<>>
  \/ \E l \in LoopIds : loops[l].pc = "playing"

C36_BargeInInterrupts ==
  [][(turn'.op = "transcript" /\ turn'.arg = 1 /\ AudioPending) =>
       /\ turn'.interrupted
       /\ audioQueue' = <<>>
       /\ \A l \in LoopIds : loops'[l].pc # "playing"]_vars


\* C37: the speaking flag and the reported state agree: isSpeaking is true
\* only while currentState is speaking.
C37_SpeakingFlagMatchesState == isSpeaking => currentState = "speaking"


\* C38: after disconnect(), and until the user calls connect() again, the
\* playback queue stays empty, no chunk is started and no playback context
\* exists.
C38_QuietAfterDisconnect ==
  userDisconnected # "no" =>
    /\ audioQueue = <<>>
    /\ turn.started = <<>>
    /\ playbackAudioContext = "null"


\* C39: the close event of a channel that disconnect() closed (code 1000)
\* does not move currentState to error and does not invoke onError.
C39_DeliberateCloseIsNoError ==
  [][(/\ turn'.op = "onclose"
      /\ turn'.arg = NORMAL_CLOSURE
      /\ \E c \in Chans : chan[c].rs = "CLOSING" /\ chan'[c].rs = "CLOSED") =>
        /\ currentState' # "error"
        /\ \A i \in 1..Len(turn'.cbs) :
             turn'.cbs[i] # <<"onStateChange", "error">> /\ turn'.cbs[i][1] # "onError"]_vars

=============================================================================
